---------------------------- MODULE Spec2Model ----------------------------
(***************************************************************************)
(* A model of mdistiller/engine/utils.py: AverageMeter, accuracy,          *)
(* adjust_learning_rate and validate (with the all-gather it calls).       *)
(*                                                                         *)
(* Python floats are modelled as exact rationals <<num, den>> in lowest    *)
(* terms with den > 0; the IEEE value nan is the pair <<0, 0>>.            *)
(***************************************************************************)
EXTENDS Integers, Sequences, FiniteSets, TLC

VARIABLES
    \* ---- AverageMeter under test
    meter,        \* the meter object: [val, avg, sum, count]
    meterRaised,  \* TRUE once a call on the meter has raised
    hist,         \* history: the <<value, weight>> updates since the last reset
    posOnly,      \* history: every update so far had a positive weight
    \* ---- accuracy under test
    accOutput,    \* score matrix: a sequence of rows, row[c] the score of class c
    accTarget,    \* label vector
    accTopk,      \* the requested k-values, in the order requested
    accTie,       \* how the library's topk orders equal scores
    accRet,       \* the call's outcome: [called, raised, res]
    \* ---- adjust_learning_rate, called by a training loop
    lrCfg,        \* the configuration cfg
    optimizer,    \* optimizer.param_groups: a sequence of [lr, weight_decay]
    optBefore,    \* history: param_groups before the last call
    lrEpoch,      \* epoch of the next call (1-indexed)
    lrBidx,       \* batch index of the next call (0-indexed)
    lrLeft,       \* epochs the loop still runs, this one included
    lrPc,         \* "run", "done" or "aborted" (a call raised)
    lrRet,        \* the last call: [called, raised, rate, epoch, bidx]
    \* ---- validate, run by the workers of one process group
    vcfg,         \* the run: [W, numIter, lastLen, tie, data]
    vw,           \* the workers by rank: locals of validate and position in it
    vgather       \* the collective calls in flight, by call number

meterVars == <<meter, meterRaised, hist, posOnly>>
accVars == <<accOutput, accTarget, accTopk, accTie, accRet>>
lrVars == <<lrCfg, optimizer, optBefore, lrEpoch, lrBidx, lrLeft, lrPc, lrRet>>
vars == <<meter, meterRaised, hist, posOnly,
          accOutput, accTarget, accTopk, accTie, accRet,
          lrCfg, optimizer, optBefore, lrEpoch, lrBidx, lrLeft, lrPc, lrRet,
          vcfg, vw, vgather>>
valVars == <<vcfg, vw, vgather>>

(***************************************************************************)
(* Bounds of the model.                                                    *)
(***************************************************************************)
MaxUpdates == 3   \* updates of the meter between two resets
MaxVal == 3       \* meter values are 0..MaxVal
MaxWeight == 2    \* meter weights are 0..MaxWeight
MaxEpochs == 3    \* consecutive epochs a training loop is followed for
MaxGroups == 2    \* parameter groups of the optimizer
MaxWorkers == 2   \* workers of the process group
MaxIter == 2      \* batches of a validation loader

(***************************************************************************)
(* Rational arithmetic: what the float operators of the code compute.      *)
(***************************************************************************)
Abs(x) == IF x < 0 THEN -x ELSE x

RECURSIVE GCD(_, _)
GCD(a, b) == IF b = 0 THEN a ELSE GCD(b, a % b)

\* n/d in lowest terms, d # 0
Q(n, d) ==
    LET g == GCD(Abs(n), Abs(d))
        s == IF d < 0 THEN -1 ELSE 1
    IN  <<s * (n \div g), s * (d \div g)>>

NaN == <<0, 0>>
QInt(n) == <<n, 1>>
QZero == <<0, 1>>
QAdd(a, b) == Q(a[1] * b[2] + b[1] * a[2], a[2] * b[2])
QSub(a, b) == Q(a[1] * b[2] - b[1] * a[2], a[2] * b[2])
QMul(a, b) == Q(a[1] * b[1], a[2] * b[2])
QDiv(a, b) == Q(a[1] * b[2], a[2] * b[1])      \* b # 0
QLe(a, b) == a[1] * b[2] <= b[1] * a[2]
QLt(a, b) == a[1] * b[2] < b[1] * a[2]

RECURSIVE QPow(_, _)
QPow(a, n) == IF n = 0 THEN QInt(1) ELSE QMul(a, QPow(a, n - 1))

(***************************************************************************)
(* AverageMeter (utils.py 12-28).                                          *)
(***************************************************************************)
\* reset(): the four fields are the int 0
MeterReset == [val |-> QZero, avg |-> QZero, sum |-> QZero, count |-> 0]

\* A faulty variant of MeterAccumulate: the weight is dropped from the sum.
MeterAccumulateUnweighted(m, v, n) ==
    [m EXCEPT !.val = v,
              !.sum = QAdd(m.sum, v),
              !.count = m.count + n]

\* The three assignments of update() that precede the division.
MeterAccumulate(m, v, n) ==
    [m EXCEPT !.val = v,
              !.sum = QAdd(m.sum, QMul(v, QInt(n))),
              !.count = m.count + n]

\* self.sum / self.count raises ZeroDivisionError on Python numbers and
\* yields nan (0/0) on numpy and torch scalars; the fields assigned before
\* the division keep their new values either way.
MeterDivRaises(m, v, n, kind) == (m.count + n = 0) /\ kind = "python"

\* update(val, n): the meter after the call
MeterUpdate(m, v, n, kind) ==
    LET a == MeterAccumulate(m, v, n)
    IN  IF a.count = 0
        THEN IF kind = "python" THEN a ELSE [a EXCEPT !.avg = NaN]
        ELSE [a EXCEPT !.avg = QDiv(a.sum, QInt(a.count))]

NumKinds == {"python", "array"}

MeterStart ==
    /\ meter = MeterReset          \* __init__ calls reset()
    /\ meterRaised = FALSE
    /\ hist = <<>>
    /\ posOnly = TRUE

CallReset ==
    /\ meter' = MeterReset
    /\ hist' = <<>>
    /\ UNCHANGED <<meterRaised, posOnly>>

CallUpdate ==
    \E v \in 0..MaxVal, n \in 0..MaxWeight, kind \in NumKinds :
        /\ Len(hist) < MaxUpdates
        /\ meter' = MeterUpdate(meter, QInt(v), n, kind)
        /\ meterRaised' = (meterRaised \/ MeterDivRaises(meter, QInt(v), n, kind))
        /\ hist' = Append(hist, <<v, n>>)
        /\ posOnly' = (posOnly /\ n > 0)

(***************************************************************************)
(* accuracy (utils.py 125-136).                                            *)
(***************************************************************************)
\* Tie policies of output.topk: equal scores are ordered by ascending or by
\* descending class index (the library leaves the order unspecified).
TiePolicies == {"low", "high"}

\* class d is listed before class c by topk(largest=True, sorted=True)
Before(row, d, c, tie) ==
    \/ row[d] > row[c]
    \/ /\ row[d] = row[c]
       /\ IF tie = "low" THEN d < c ELSE d > c

Rank(row, c, tie) ==
    Cardinality({d \in DOMAIN row : Before(row, d, c, tie)})

\* output.topk(maxk, 1, True, True)[1] for one row: the indices of the maxk
\* highest scores, best first
TopK(row, maxk, tie) ==
    [j \in 1..maxk |-> CHOOSE c \in DOMAIN row : Rank(row, c, tie) = j - 1]

SeqMax(s) == CHOOSE m \in {s[i] : i \in 1..Len(s)} : \A i \in 1..Len(s) : s[i] <= m

\* pred.t(): pred[j][i] is the j-th best class of sample i
Pred(output, maxk, tie) ==
    [j \in 1..maxk |-> [i \in 1..Len(output) |-> TopK(output[i], maxk, tie)[j]]]

\* pred.eq(target.reshape(1, -1).expand_as(pred))
Correct(pred, target) ==
    [j \in 1..Len(pred) |-> [i \in 1..Len(target) |-> pred[j][i] = target[i]]]

\* A faulty variant of CorrectK: correct[k - 1] in place of correct[:k].
CorrectKRowOnly(correct, k) ==
    Cardinality({i \in 1..Len(correct[1]) : correct[k][i]})

\* correct[:k].reshape(-1).float().sum(0)
CorrectK(correct, k) ==
    Cardinality({ji \in (1..k) \X (1..Len(correct[1])) : correct[ji[1]][ji[2]]})

\* topk raises when maxk exceeds the number of classes; 100.0 / batch_size
\* raises ZeroDivisionError on an empty batch
AccuracyRaises(output, target, topk) ==
    \/ Len(target) = 0
    \/ \E i \in 1..Len(output) : SeqMax(topk) > Cardinality(DOMAIN output[i])

Accuracy(output, target, topk, tie) ==
    IF AccuracyRaises(output, target, topk)
    THEN [called |-> TRUE, raised |-> TRUE, res |-> <<>>]
    ELSE LET correct == Correct(Pred(output, SeqMax(topk), tie), target)
             scale == QDiv(QInt(100), QInt(Len(target)))
         IN  [called |-> TRUE, raised |-> FALSE,
              res |-> [x \in 1..Len(topk) |->
                          QMul(QInt(CorrectK(correct, topk[x])), scale)]]

AccBatch == 2     \* score matrices have 0..AccBatch rows
Classes == 0..2   \* class indices of the score matrices
Scores == {0, 1}
NumClasses == Cardinality(Classes)

Rows == [Classes -> Scores]
Batches(n) == [1..n -> Rows]
TopkInputs ==
    {<<1>>, <<2>>, <<1, 2>>, <<2, 1>>, <<1, NumClasses>>, <<1, NumClasses + 1>>}

NotCalled == [called |-> FALSE, raised |-> FALSE, res |-> <<>>]

AccStart ==
    /\ accOutput = <<>>
    /\ accTarget = <<>>
    /\ accTopk = <<1>>
    /\ accTie = "low"
    /\ accRet = NotCalled

AccInit ==
    /\ \E n \in 0..AccBatch :
          /\ accOutput \in Batches(n)
          /\ accTarget \in [1..n -> Classes]
    /\ accTopk \in TopkInputs
    /\ accTie \in TiePolicies
    /\ accRet = NotCalled

CallAccuracy ==
    /\ ~accRet.called
    /\ accRet' = Accuracy(accOutput, accTarget, accTopk, accTie)
    /\ UNCHANGED <<accOutput, accTarget, accTopk, accTie>>

(***************************************************************************)
(* adjust_learning_rate (utils.py 83-122).                                 *)
(***************************************************************************)
ImagenetSize == 1281167
Cifar100Size == 50000
DatasetSizes == [imagenet |-> ImagenetSize, cifar100 |-> Cifar100Size]

\* int(ceil(size / cfg.SOLVER.BATCH_SIZE))
NumEpochBatches(c) ==
    (DatasetSizes[c.DATASET] + c.BATCH_SIZE - 1) \div c.BATCH_SIZE

\* np.cos(t / T * np.pi) for 0 <= t <= T, T > 0, in thousandths: the Taylor
\* polynomial of degree 8 on [0, pi/2] in fixed point, mirrored on
\* (pi/2, pi]; within 3/1000 of the cosine.
RECURSIVE CosMilli(_, _)
CosMilli(t, T) ==
    IF 2 * t > T THEN -CosMilli(T - t, T)
    ELSE LET x == (3142 * t) \div T
             x2 == (x * x) \div 1000
             x4 == (x2 * x2) \div 1000
             x6 == (x4 * x2) \div 1000
             x8 == (x6 * x2) \div 1000
         IN  1000 - (x2 \div 2) + (x4 \div 24) - (x6 \div 720) + (x8 \div 40320)

Returned(rate, opt) == [raised |-> "", rate |-> rate, opt |-> opt]
Raised(what, opt) == [raised |-> what, rate |-> QZero, opt |-> opt]

\* for param_group in optimizer.param_groups: param_group["lr"] = new_lr
WriteLr(opt, new_lr) == [i \in DOMAIN opt |-> [opt[i] EXCEPT !.lr = new_lr]]

\* np.sum(epoch > np.asarray(STAGES))
Steps(epoch, stages) == Cardinality({i \in DOMAIN stages : epoch > stages[i]})

\* case 'MULTISTEP'
Multistep(epoch, bidx, c, opt) ==
    IF bidx = 0
    THEN LET steps == Steps(epoch, c.STAGES)
         IN  IF steps > 0
             THEN LET new_lr == QMul(c.LR, QPow(c.MS_RATE, steps))
                  IN  Returned(new_lr, WriteLr(opt, new_lr))
             ELSE Returned(c.LR, opt)
    ELSE Returned(opt[1].lr, opt)

\* the cosine branch of case 'COSINE' (lines 112-115)
CosineLr(c, cos_bidx, num_cos_batches) ==
    LET last_lr == QMul(c.LR, c.COS_RATE)
        cosv == Q(CosMilli(cos_bidx, num_cos_batches), 1000)
    IN  QAdd(QMul(QMul(QAdd(cosv, QInt(1)), Q(1, 2)), QSub(c.LR, last_lr)), last_lr)

\* A faulty variant of WarmupLr: the ramp counts from global_bidx, not global_bidx + 1.
WarmupLrFromZero(c, global_bidx, num_warmup_batches) ==
    QMul(QDiv(c.LR, QInt(num_warmup_batches)), QInt(global_bidx))

\* the warmup branch of case 'COSINE' (line 110)
WarmupLr(c, global_bidx, num_warmup_batches) ==
    QMul(QDiv(c.LR, QInt(num_warmup_batches)), QInt(global_bidx + 1))

\* case 'COSINE'
Cosine(epoch, bidx, c, opt) ==
    IF c.DATASET \notin DOMAIN DatasetSizes
    THEN Raised("KeyError", opt)
    ELSE LET num_epoch_batches == NumEpochBatches(c)
             num_warmup_batches == num_epoch_batches * c.WARMUP
             global_bidx == (epoch - 1) * num_epoch_batches + bidx
             num_cos_batches == num_epoch_batches * (c.EPOCHS - c.WARMUP)
         IN  IF global_bidx < num_warmup_batches
             THEN LET new_lr == WarmupLr(c, global_bidx, num_warmup_batches)
                  IN  Returned(new_lr, WriteLr(opt, new_lr))
             ELSE IF num_cos_batches = 0
                  THEN Raised("ZeroDivisionError", opt)
                  ELSE LET new_lr == CosineLr(c, global_bidx - num_warmup_batches,
                                              num_cos_batches)
                       IN  Returned(new_lr, WriteLr(opt, new_lr))

\* A faulty variant of UnknownType: the default case returns the base rate.
UnknownTypeReturnsBase(epoch, bidx, c, opt) == Returned(c.LR, opt)

\* case _: raise NotImplementedError(cfg.SOLVER.SCHEDULE.TYPE)
UnknownType(epoch, bidx, c, opt) == Raised("NotImplementedError", opt)

\* match cfg.SOLVER.SCHEDULE.TYPE
AdjustLearningRate(epoch, bidx, c, opt) ==
    CASE c.TYPE = "MULTISTEP" -> Multistep(epoch, bidx, c, opt)
      [] c.TYPE = "COSINE" -> Cosine(epoch, bidx, c, opt)
      [] OTHER -> UnknownType(epoch, bidx, c, opt)

(***************************************************************************)
(* The configurations, optimizers and training loops the scheduler is run  *)
(* on.                                                                     *)
(***************************************************************************)
Datasets == {"imagenet", "cifar100", "cifar10"}
BaseCfg ==
    [TYPE |-> "MULTISTEP", DATASET |-> "cifar100", BATCH_SIZE |-> 25000,
     LR |-> Q(1, 10), EPOCHS |-> MaxEpochs, WARMUP |-> 1, COS_RATE |-> Q(1, 10),
     STAGES |-> <<2, 3>>, MS_RATE |-> Q(1, 10)]

MultistepCfgs ==
    {[BaseCfg EXCEPT !.DATASET = d, !.STAGES = st[1], !.EPOCHS = st[2], !.MS_RATE = r] :
        d \in Datasets,
        st \in {<<<<2, 3>>, MaxEpochs>>, <<<<>>, MaxEpochs>>, <<<<30, 60, 90>>, 100>>},
        r \in {Q(1, 10), Q(1, 2)}}

\* batch sizes that give 1, 2 and 5 batches per epoch on either dataset
BatchSizes == {ImagenetSize, 640584, 256234, Cifar100Size, 25000, 10000}

CosineCfgs ==
    {[BaseCfg EXCEPT !.TYPE = "COSINE", !.DATASET = d, !.BATCH_SIZE = bs,
                     !.LR = lr, !.EPOCHS = ew[1], !.WARMUP = ew[2]] :
        d \in Datasets,
        bs \in BatchSizes,
        lr \in {Q(1, 10), Q(1, 2)},
        ew \in {x \in (1..MaxEpochs) \X (0..MaxEpochs) : x[2] <= x[1]}}

OtherCfgs ==
    {[BaseCfg EXCEPT !.TYPE = t, !.DATASET = d] :
        t \in {"LINEAR", "multistep"}, d \in Datasets}

Configs == MultistepCfgs \cup CosineCfgs \cup OtherCfgs

\* rates the optimizer may hold before the loop's first call
PriorRates == {Q(1, 10), Q(1, 20)}
Groups == [lr : PriorRates, weight_decay : {Q(1, 2000)}]
Optimizers == UNION {[1..n -> Groups] : n \in 1..MaxGroups}

\* epochs a loop may start at (a fresh run, or one resumed from a checkpoint)
StartEpochs(c) == {e \in (1..MaxEpochs) \cup {30, 31, 45, 90, 91} : e <= c.EPOCHS}

\* len(train_loader)
LoaderLen(c) ==
    IF c.DATASET \in DOMAIN DatasetSizes THEN NumEpochBatches(c) ELSE 2

NoCall == [called |-> FALSE, raised |-> "", rate |-> QZero, epoch |-> 0, bidx |-> 0]

LrStart ==
    /\ lrCfg = BaseCfg
    /\ optimizer = <<>>
    /\ optBefore = <<>>
    /\ lrEpoch = 1
    /\ lrBidx = 0
    /\ lrLeft = 0
    /\ lrPc = "done"
    /\ lrRet = NoCall

LrInit ==
    /\ lrCfg \in Configs
    /\ optimizer \in Optimizers
    /\ optBefore = optimizer
    /\ lrEpoch \in StartEpochs(lrCfg)
    /\ lrBidx = 0
    /\ lrLeft = MaxEpochs
    /\ lrPc = "run"
    /\ lrRet = NoCall

\* One iteration of the training loop: the call of adjust_learning_rate,
\* then the step to the next batch or epoch; an error ends the loop.
CallAdjust ==
    /\ lrPc = "run"
    /\ LET r == AdjustLearningRate(lrEpoch, lrBidx, lrCfg, optimizer)
           lastBatch == lrBidx + 1 >= LoaderLen(lrCfg)
           lastEpoch == lrEpoch >= lrCfg.EPOCHS \/ lrLeft <= 1
       IN  /\ lrRet' = [called |-> TRUE, raised |-> r.raised, rate |-> r.rate,
                        epoch |-> lrEpoch, bidx |-> lrBidx]
           /\ optBefore' = optimizer
           /\ optimizer' = r.opt
           /\ IF r.raised # ""
              THEN lrPc' = "aborted" /\ UNCHANGED <<lrEpoch, lrBidx, lrLeft>>
              ELSE IF ~lastBatch
              THEN lrBidx' = lrBidx + 1 /\ UNCHANGED <<lrEpoch, lrLeft, lrPc>>
              ELSE IF ~lastEpoch
              THEN /\ lrEpoch' = lrEpoch + 1 /\ lrBidx' = 0
                   /\ lrLeft' = lrLeft - 1 /\ UNCHANGED lrPc
              ELSE lrPc' = "done" /\ UNCHANGED <<lrEpoch, lrBidx, lrLeft>>
    /\ UNCHANGED lrCfg

(***************************************************************************)
(* The validation data: samples over six classes with scores in {0, 1}.    *)
(* "A" is a top-1 hit, "C" misses the top 5, "B" is in the top 5 or not    *)
(* and "D" is a top-1 hit or not, by the order topk gives equal scores.    *)
(* A dataset repeats a pattern of three samples; sample n of the dataset   *)
(* goes to rank n % W.                                                     *)
(***************************************************************************)
ValClasses == 0..5
SampleNames == {"A", "B", "C", "D"}
Patterns ==
    {<<"A", "A", "A">>, <<"A", "C", "B">>, <<"C", "D", "A">>,
     <<"B", "B", "D">>, <<"D", "A", "C">>}
OneHot == [c \in ValClasses |-> IF c = 0 THEN 1 ELSE 0]
AllButLast == [c \in ValClasses |-> IF c = 5 THEN 0 ELSE 1]
BlankRow == [c \in ValClasses |-> 0]

\* the logits the model gives the sample's image
SampleRow(name) == IF name \in {"A", "B"} THEN OneHot ELSE AllButLast

\* the sample's label
SampleLabel(name) ==
    CASE name = "A" -> 0 [] name = "B" -> 1 [] name = "C" -> 5 [] OTHER -> 0

\* A tensor row with its provenance: src = <<rank, iteration, position>> and
\* smp, the sample's name, are history; a target row holds the label, an
\* output row the logits.
TargetElem(r, i, j, name) ==
    [kind |-> "target", src |-> <<r, i, j>>, smp |-> name,
     label |-> SampleLabel(name), row |-> BlankRow]
OutputElem(r, i, j, name) ==
    [kind |-> "output", src |-> <<r, i, j>>, smp |-> name,
     label |-> 0, row |-> SampleRow(name)]

(***************************************************************************)
(* dist_fn.gather: an all-gather, one collective call after another.       *)
(***************************************************************************)
Ranks == 0..(vcfg.W - 1)
NoCallYet == [in |-> {}, out |-> {}, vals |-> <<>>]

\* rank r enters call c with value v
GatherEnter(g, c, r, v) ==
    [g EXCEPT ![c] = [in |-> @.in \cup {r}, out |-> @.out,
                      vals |-> [q \in @.in \cup {r} |-> IF q = r THEN v ELSE @.vals[q]]]]

\* every rank has entered call c
GatherComplete(g, c) == g[c].in = Ranks

RECURSIVE ConcatFrom(_, _)
ConcatFrom(vals, r) ==
    IF r \notin DOMAIN vals THEN <<>> ELSE vals[r] \o ConcatFrom(vals, r + 1)

\* what call c returns: the ranks' values concatenated in ascending rank order
GatherResult(g, c) == ConcatFrom(g[c].vals, 0)

\* rank r returns from call c; the call is forgotten once every rank has
GatherLeave(g, c, r) ==
    IF g[c].out \cup {r} = Ranks
    THEN [g EXCEPT ![c] = [in |-> Ranks, out |-> Ranks, vals |-> <<>>]]
    ELSE [g EXCEPT ![c].out = @ \cup {r}]

(***************************************************************************)
(* validate (utils.py 31-70).                                              *)
(***************************************************************************)
\* nn.CrossEntropyLoss on one row, in thousandths: log(sum of exp(score))
\* minus the label's score, for six scores in {0, 1} of which m are 1
LogSumExpMilli == <<1792, 2044, 2245, 2412, 2555, 2680, 2792>>
SampleLossMilli(row, label) ==
    LogSumExpMilli[Cardinality({c \in DOMAIN row : row[c] = 1}) + 1] - 1000 * row[label]

RECURSIVE SumLossMilli(_, _, _)
SumLossMilli(output, target, i) ==
    IF i > Len(target) THEN 0
    ELSE SampleLossMilli(output[i], target[i]) + SumLossMilli(output, target, i + 1)

\* criterion(output_all, target_all): the mean over the batch
Criterion(output, target) == Q(SumLossMilli(output, target, 1), 1000 * Len(target))

\* A faulty variant of ShowsProgress: the progress bar is not guarded by the flag.
ShowsProgressAlways(isMaster) == TRUE

\* if IS_MASTER: (lines 37, 62, 68)
ShowsProgress(isMaster) == isMaster

\* A faulty variant of MetricBatch: the metrics are computed on the worker's own batch.
MetricBatchLocal(local, gathered) == local

\* the batch the loss and the accuracies are computed on (lines 51-54)
MetricBatch(local, gathered) == gathered

\* A faulty variant of GatherArgs: the two tensors are gathered the other way round.
GatherArgsSwapped(target, output) == <<output, target>>

\* the tensors gathered, in call order (lines 49-50)
GatherArgs(target, output) == <<target, output>>

NoPbar == [created |-> FALSE, total |-> 0, updates |-> 0, desc |-> <<>>, closed |-> FALSE]
NoRet == <<>>

\* a worker before its call of validate
NewWorker(isMaster) ==
    [pc |-> "start", isMaster |-> isMaster, idx |-> 0,
     batch_time |-> MeterReset, losses |-> MeterReset,
     top1 |-> MeterReset, top5 |-> MeterReset,
     target |-> <<>>, output |-> <<>>, target_all |-> <<>>, output_all |-> <<>>,
     pbar |-> NoPbar, ret |-> NoRet, entered |-> 0, returned |-> 0,
     failed |-> FALSE]

\* rows of a batch of one worker's loader; a full batch has the most
ShardLens == {1, 2}
FullLen == CHOOSE n \in ShardLens : \A m \in ShardLens : m <= n

\* rows of the loader's batch idx: a full batch, the last one maybe shorter
ShardLen(idx) == IF idx = vcfg.numIter - 1 THEN vcfg.lastLen ELSE FullLen

\* the sample at position j of batch idx of rank r's loader
SampleAt(r, idx, j) ==
    vcfg.data[(((idx * FullLen + j - 1) * vcfg.W + r) % Len(vcfg.data)) + 1]

\* batch idx of rank r's loader
ShardNames(r, idx) == [j \in 1..ShardLen(idx) |-> SampleAt(r, idx, j)]

Labels(t) == [i \in 1..Len(t) |-> t[i].label]
Logits(o) == [i \in 1..Len(o) |-> o[i].row]

\* lines 32-42: the flag, the meters, the progress bar
Begin(r) ==
    /\ vw[r].pc = "start"
    /\ vw' = [vw EXCEPT ![r].pc = "loop",
                        ![r].pbar = IF ShowsProgress(vw[r].isMaster)
                                    THEN [NoPbar EXCEPT !.created = TRUE,
                                                        !.total = vcfg.numIter]
                                    ELSE NoPbar]
    /\ UNCHANGED <<vcfg, vgather>>

\* lines 43-49: the loader yields the next batch, the model is run on it,
\* and the worker enters the first gather
Forward(r) ==
    /\ vw[r].pc = "loop"
    /\ vw[r].idx < vcfg.numIter
    /\ LET i == vw[r].idx
           names == ShardNames(r, i)
       IN LET target == [j \in 1..Len(names) |-> TargetElem(r, i, j, names[j])]
              output == [j \in 1..Len(names) |-> OutputElem(r, i, j, names[j])]
          IN  /\ vw' = [vw EXCEPT ![r].pc = "gatherT",
                                  ![r].target = target,
                                  ![r].output = output,
                                  ![r].entered = @ + 1]
              /\ vgather' = GatherEnter(vgather, 2 * i + 1, r,
                                        GatherArgs(target, output)[1])
    /\ UNCHANGED vcfg

\* lines 49-50: the first gather returns and the worker enters the second
ReturnTarget(r) ==
    /\ vw[r].pc = "gatherT"
    /\ LET c == 2 * vw[r].idx + 1
       IN  /\ GatherComplete(vgather, c)
           /\ vw' = [vw EXCEPT ![r].pc = "gatherO",
                               ![r].target_all = GatherResult(vgather, c),
                               ![r].returned = @ + 1,
                               ![r].entered = @ + 1]
           /\ vgather' = GatherEnter(GatherLeave(vgather, c, r), c + 1, r,
                                     GatherArgs(vw[r].target, vw[r].output)[2])
    /\ UNCHANGED vcfg

\* the progress bar after set_description and update
PbarStep(w, pbar) ==
    IF ShowsProgress(w.isMaster)
    THEN [pbar EXCEPT !.desc = <<w.top1.avg, w.top5.avg>>, !.updates = @ + 1]
    ELSE pbar

\* lines 50-67: the second gather returns; loss, accuracies, meters and
\* progress bar
ReturnOutput(r) ==
    /\ vw[r].pc = "gatherO"
    /\ LET c == 2 * vw[r].idx + 2
           w == vw[r]
           output_all == GatherResult(vgather, c)
           ev == MetricBatch([target |-> w.target, output |-> w.output],
                             [target |-> w.target_all, output |-> output_all])
           loss == Criterion(Logits(ev.output), Labels(ev.target))
           batch_size == Len(ev.target)
           acc == Accuracy(Logits(ev.output), Labels(ev.target), <<1, 5>>, vcfg.tie)
           metered == [w EXCEPT !.losses = MeterUpdate(@, loss, batch_size, "array"),
                                !.top1 = MeterUpdate(@, acc.res[1], batch_size, "array"),
                                !.top5 = MeterUpdate(@, acc.res[2], batch_size, "array"),
                                !.batch_time = MeterUpdate(@, QInt(1), 1, "python")]
       IN  /\ GatherComplete(vgather, c)
           /\ vgather' = GatherLeave(vgather, c, r)
           /\ vw' = [vw EXCEPT ![r] =
                  IF acc.raised
                  THEN [w EXCEPT !.pc = "failed", !.failed = TRUE,
                                 !.output_all = output_all, !.returned = @ + 1]
                  ELSE [metered EXCEPT !.pc = "loop",
                                       !.idx = @ + 1,
                                       !.output_all = output_all,
                                       !.returned = @ + 1,
                                       !.pbar = PbarStep(metered, @)]]
    /\ UNCHANGED vcfg

\* lines 68-70: the loader is exhausted
Finish(r) ==
    /\ vw[r].pc = "loop"
    /\ vw[r].idx = vcfg.numIter
    /\ vw' = [vw EXCEPT ![r].pc = "done",
                        ![r].pbar = IF ShowsProgress(vw[r].isMaster)
                                    THEN [@ EXCEPT !.closed = TRUE] ELSE @,
                        ![r].ret = <<vw[r].top1.avg, vw[r].top5.avg, vw[r].losses.avg>>]
    /\ UNCHANGED <<vcfg, vgather>>

ValStart ==
    /\ vcfg = [W |-> 0, numIter |-> 0, lastLen |-> FullLen, tie |-> "low",
               data |-> <<"A">>]
    /\ vw = <<>>
    /\ vgather = <<>>

ValInit ==
    /\ vcfg \in [W : 1..MaxWorkers, numIter : 0..MaxIter,
                  lastLen : ShardLens, tie : TiePolicies, data : Patterns]
    /\ vw \in [Ranks -> {NewWorker(m) : m \in BOOLEAN}]
    /\ vgather = [c \in 1..(2 * MaxIter) |-> NoCallYet]

(***************************************************************************)
(* Specifications, one per component.                                      *)
(***************************************************************************)
MeterInit == MeterStart /\ AccStart /\ LrStart /\ ValStart
MeterNext ==
    \/ CallReset /\ UNCHANGED <<accVars, lrVars, valVars>>
    \/ CallUpdate /\ UNCHANGED <<accVars, lrVars, valVars>>
SpecMeter == MeterInit /\ [][MeterNext]_vars

AccuracyInit == AccInit /\ MeterStart /\ LrStart /\ ValStart
AccuracyNext == CallAccuracy /\ UNCHANGED <<meterVars, lrVars, valVars>>
SpecAccuracy == AccuracyInit /\ [][AccuracyNext]_vars

SchedulerInit == LrInit /\ MeterStart /\ AccStart /\ ValStart
SchedulerNext == CallAdjust /\ UNCHANGED <<meterVars, accVars, valVars>>
SpecScheduler == SchedulerInit /\ [][SchedulerNext]_vars

ValidateInit == ValInit /\ MeterStart /\ AccStart /\ LrStart
ValidateNext ==
    \E r \in Ranks :
        \/ Begin(r) /\ UNCHANGED <<meterVars, accVars, lrVars>>
        \/ Forward(r) /\ UNCHANGED <<meterVars, accVars, lrVars>>
        \/ ReturnTarget(r) /\ UNCHANGED <<meterVars, accVars, lrVars>>
        \/ ReturnOutput(r) /\ UNCHANGED <<meterVars, accVars, lrVars>>
        \/ Finish(r) /\ UNCHANGED <<meterVars, accVars, lrVars>>
SpecValidate == ValidateInit /\ [][ValidateNext]_vars


(***************************************************************************)
(* AverageMeter: the claims.                                               *)
(***************************************************************************)
RECURSIVE WeightedSum(_)
WeightedSum(h) ==
    IF h = <<>> THEN 0 ELSE h[1][1] * h[1][2] + WeightedSum(Tail(h))

RECURSIVE SumWeights(_)
SumWeights(h) == IF h = <<>> THEN 0 ELSE h[1][2] + SumWeights(Tail(h))

\* C3: after any sequence of reset() and update(value, weight) calls with
\* positive weights, sum is the weighted sum of the values and count the sum
\* of the weights since the last reset, val is the last value passed,
\* avg * count = sum whenever count > 0, and a fresh or reset meter has
\* val = avg = sum = count = 0.
C3_MeterAverage ==
    posOnly =>
        /\ ~meterRaised
        /\ meter.sum = QInt(WeightedSum(hist))
        /\ meter.count = SumWeights(hist)
        /\ meter.count > 0 =>
              /\ meter.avg # NaN
              /\ QMul(meter.avg, QInt(meter.count)) = meter.sum
        /\ hist # <<>> =>
              /\ meter.count > 0
              /\ meter.val = QInt(hist[Len(hist)][1])
        /\ hist = <<>> =>
              /\ meter.val = QZero /\ meter.avg = QZero
              /\ meter.sum = QZero /\ meter.count = 0

\* update(1, 2) then update(3, 2) gives sum = 8, count = 4, avg = 2
C3_Example ==
    /\ hist = <<<<1, 2>>, <<3, 2>>>>
    /\ posOnly
    /\ meter = [val |-> QInt(3), avg |-> QInt(2), sum |-> QInt(8), count |-> 4]

\* C9: with weights >= 0, no call on the meter raises and avg is 0 for as
\* long as count = 0 (the claim as stated).
C9_NeverRaisesAvgZero ==
    /\ ~meterRaised
    /\ meter.count = 0 => meter.avg = QZero

(***************************************************************************)
(* accuracy: the claims.                                                   *)
(***************************************************************************)
\* the k best classes of a row, as the library lists them
TopSet(row, k, tie) == {c \in DOMAIN row : Rank(row, c, tie) < k}

\* samples whose label is among the k best classes of their row
Hits(output, target, k, tie) ==
    {i \in 1..Len(target) : target[i] \in TopSet(output[i], k, tie)}

\* samples whose label is in the top k whatever the order of equal scores
SureHits(output, target, k) ==
    {i \in 1..Len(target) :
        Cardinality({d \in DOMAIN output[i] :
            d # target[i] /\ output[i][d] >= output[i][target[i]]}) < k}

\* samples whose label can be in the top k for some order of equal scores
MayHits(output, target, k) ==
    {i \in 1..Len(target) :
        Cardinality({d \in DOMAIN output[i] :
            output[i][d] > output[i][target[i]]}) < k}

KnownTypes == {"MULTISTEP", "COSINE"}
KnownDatasets == {"imagenet", "cifar100"}

\* C2: in MULTISTEP mode every call of an epoch e, whatever rate the
\* optimizer held before the epoch's first call, returns
\* base_lr * decay_rate^s, s the number of stage thresholds strictly less
\* than e (the claim as stated).
C2_MultistepRate ==
    (lrRet.called /\ lrCfg.TYPE = "MULTISTEP") =>
        /\ lrRet.raised = ""
        /\ lrRet.rate =
              QMul(lrCfg.LR, QPow(lrCfg.MS_RATE, Steps(lrRet.epoch, lrCfg.STAGES)))

\* C5: a call that returns a rate r leaves the lr of every parameter group
\* equal to r and changes nothing else in the optimizer (the claim as
\* stated).
C5_EveryGroupHoldsReturnedRate ==
    (lrRet.called /\ lrRet.raised = "") =>
        /\ DOMAIN optimizer = DOMAIN optBefore
        /\ \A i \in DOMAIN optimizer :
              /\ optimizer[i].lr = lrRet.rate
              /\ optimizer[i].weight_decay = optBefore[i].weight_decay

\* the last call was made in COSINE mode on a known dataset
CosineCall ==
    lrRet.called /\ lrCfg.TYPE = "COSINE" /\ lrCfg.DATASET \in KnownDatasets

GlobalBatch == (lrRet.epoch - 1) * NumEpochBatches(lrCfg) + lrRet.bidx
WarmupBatches == NumEpochBatches(lrCfg) * lrCfg.WARMUP
CosBatches == NumEpochBatches(lrCfg) * (lrCfg.EPOCHS - lrCfg.WARMUP)
FloorLr == QMul(lrCfg.LR, lrCfg.COS_RATE)
FinalBatch ==
    lrRet.epoch = lrCfg.EPOCHS /\ lrRet.bidx = NumEpochBatches(lrCfg) - 1

\* the warmup half of C6: the linear ramp, which ends at base_lr
CosineWarmup ==
    /\ lrRet.raised = ""
    /\ GlobalBatch < WarmupBatches =>
          QMul(lrRet.rate, QInt(WarmupBatches)) = QMul(lrCfg.LR, QInt(GlobalBatch + 1))
    /\ GlobalBatch = WarmupBatches - 1 => lrRet.rate = lrCfg.LR

\* C6 as stated: the warmup ramp, and at the final scheduled batch a rate
\* that is approximately base_lr * end_rate_fraction; read most generously,
\* a rate nearer to that floor than to base_lr.
C6_FinalRateNearFloor ==
    CosineCall =>
        /\ CosineWarmup
        /\ FinalBatch =>
              QLt(QAdd(lrRet.rate, lrRet.rate), QAdd(lrCfg.LR, FloorLr))

\* (rate - floor) / (base_lr - floor): where the last rate lies between the
\* floor (0) and base_lr (1)
Excess == QDiv(QSub(lrRet.rate, FloorLr), QSub(lrCfg.LR, FloorLr))

\* C6 amended: the warmup ramp; at the final scheduled batch, with
\* T = batches_per_epoch * (total_epochs - warmup_epochs) cosine batches,
\* the rate is base_lr when T = 0 (the whole run is warmup) or T = 1, and
\* otherwise lies between the floor and
\* floor + (base_lr - floor) * 5 / (2 * T^2), up to the 3/1000 of
\* (base_lr - floor) the cosine is computed to.
C6_CosineSchedule ==
    CosineCall =>
        /\ CosineWarmup
        /\ FinalBatch =>
              LET T == CosBatches
              IN  IF T <= 1
                  THEN lrRet.rate = lrCfg.LR
                  ELSE /\ QLe(Q(-3, 1000), Excess)
                       /\ QLe(QMul(Excess, QInt(2 * T * T)),
                              QAdd(QInt(5), Q(6 * T * T, 1000)))

\* the final batch of a run with ten cosine batches, its rate within 3% of
\* the floor, after a warmup that reached base_lr
C6_FinalBatchReached ==
    /\ CosineCall /\ FinalBatch /\ lrPc = "done"
    /\ CosBatches = 10 /\ WarmupBatches = 5
    /\ QLe(lrRet.rate, QAdd(FloorLr, QMul(QSub(lrCfg.LR, FloorLr), Q(3, 100))))

\* C7 as stated: a call with an unknown schedule type, or with an unknown
\* dataset identifier, raises, returns no rate and leaves every lr unchanged.
C7_AnyConfigErrorRaises ==
    (lrRet.called /\ (lrCfg.TYPE \notin KnownTypes \/ lrCfg.DATASET \notin KnownDatasets)) =>
        /\ lrRet.raised # ""
        /\ lrPc = "aborted"
        /\ optimizer = optBefore

\* C7 amended: a call with an unknown schedule type, or in COSINE mode with
\* an unknown dataset identifier, raises, returns no rate, ends the loop
\* and leaves the optimizer unchanged; in MULTISTEP mode the dataset
\* identifier is not read and no call raises.
C7_ConfigErrorFatal ==
    lrRet.called =>
        /\ (lrCfg.TYPE \notin KnownTypes
              \/ (lrCfg.TYPE = "COSINE" /\ lrCfg.DATASET \notin KnownDatasets)) =>
                /\ lrRet.raised # ""
                /\ lrRet.rate = QZero
                /\ lrPc = "aborted"
                /\ optimizer = optBefore
        /\ lrCfg.TYPE = "MULTISTEP" => lrRet.raised = ""
        /\ lrRet.raised # "" => lrPc = "aborted" /\ optimizer = optBefore

\* both configuration errors are raised somewhere
C7_UnknownTypeRaised ==
    /\ lrRet.called /\ lrRet.raised = "NotImplementedError"
    /\ lrCfg.TYPE = "LINEAR" /\ lrPc = "aborted"
    /\ Len(optimizer) = 2 /\ optimizer[1].lr # optimizer[2].lr

(***************************************************************************)
(* validate: the claims.                                                   *)
(***************************************************************************)
Iters == 0..(vcfg.numIter - 1)

\* the samples of the gathered batch of iteration i, as <<rank, position>>
GatheredSamples(i) == Ranks \X (1..ShardLen(i))
GatheredSize(i) == Cardinality(GatheredSamples(i))

\* gathered samples of iteration i whose label is among the k classes that
\* score highest
GatheredHits(i, k) ==
    Cardinality({s \in GatheredSamples(i) :
        LET name == SampleAt(s[1], i, s[2])
        IN  Rank(SampleRow(name), SampleLabel(name), vcfg.tie) < k})

RECURSIVE ShardLossMilli(_, _, _)
ShardLossMilli(r, i, j) ==
    IF j > ShardLen(i) THEN 0
    ELSE SampleLossMilli(SampleRow(SampleAt(r, i, j)), SampleLabel(SampleAt(r, i, j)))
         + ShardLossMilli(r, i, j + 1)

RECURSIVE GatheredLossMilli(_, _)
GatheredLossMilli(i, r) ==
    IF r >= vcfg.W THEN 0 ELSE ShardLossMilli(r, i, 1) + GatheredLossMilli(i, r + 1)

\* the metrics of iteration i on its gathered batch
IterTop(i, k) == Q(100 * GatheredHits(i, k), GatheredSize(i))
IterLoss(i) == Q(GatheredLossMilli(i, 0), 1000 * GatheredSize(i))

RECURSIVE SizeFrom(_, _)
SizeFrom(i, n) == IF i >= n THEN 0 ELSE GatheredSize(i) + SizeFrom(i + 1, n)
TotalSize == SizeFrom(0, vcfg.numIter)

RECURSIVE HitsFrom(_, _)
HitsFrom(i, k) == IF i >= vcfg.numIter THEN 0 ELSE GatheredHits(i, k) + HitsFrom(i + 1, k)

RECURSIVE WeightedTotal(_, _)
WeightedTotal(metric, i) ==
    IF i >= vcfg.numIter THEN QZero
    ELSE QAdd(QMul(metric[i], QInt(GatheredSize(i))), WeightedTotal(metric, i + 1))

\* the mean of a per-iteration metric, weighted by the gathered batch size
WeightedMean(metric) ==
    IF TotalSize = 0 THEN QZero ELSE QDiv(WeightedTotal(metric, 0), QInt(TotalSize))

ExpectedTriple ==
    <<WeightedMean([i \in Iters |-> IterTop(i, 1)]),
      WeightedMean([i \in Iters |-> IterTop(i, 5)]),
      WeightedMean([i \in Iters |-> IterLoss(i)])>>

\* C1: on every worker that returns, validate returns the same triple
\* (top1_avg, top5_avg, loss_avg); each component is the mean over the
\* iterations of the metric on the gathered batch, weighted by the gathered
\* batch size; top1_avg is 100 * (gathered samples whose label scores
\* highest) / (gathered samples); with zero batches the triple is (0, 0, 0).
C1_ValidateReturnsWeightedMean ==
    \A r \in DOMAIN vw :
        vw[r].pc = "done" =>
            /\ vw[r].ret = ExpectedTriple
            /\ TotalSize > 0 => vw[r].ret[1] = Q(100 * HitsFrom(0, 1), TotalSize)
            /\ vcfg.numIter = 0 => vw[r].ret = <<QZero, QZero, QZero>>
            /\ \A q \in DOMAIN vw : vw[q].pc = "done" => vw[q].ret = vw[r].ret

\* Two workers have returned from a validation of two batches of different
\* sizes whose rates are neither 0 nor 100 and whose shards differ.
C1_TwoWorkersReturned ==
    /\ vcfg.W = 2 /\ vcfg.numIter = 2 /\ vcfg.lastLen # FullLen
    /\ \A r \in DOMAIN vw : vw[r].pc = "done"
    /\ vw[0].ret[1] \notin {QZero, QInt(100)}
    /\ vw[0].ret[1] # vw[0].ret[2]
    /\ ShardNames(0, 0) # ShardNames(1, 0)

\* the tensor a gather of iteration i returns: the rows of rank 0, then of
\* rank 1, and so on
ExpectedRow(kind, q, i, j) ==
    IF kind = "target" THEN TargetElem(q, i, j, SampleAt(q, i, j))
    ELSE OutputElem(q, i, j, SampleAt(q, i, j))
ExpectedGathered(kind, i) ==
    IF i < 0 THEN <<>>
    ELSE [n \in 1..(vcfg.W * ShardLen(i)) |->
              ExpectedRow(kind, (n - 1) \div ShardLen(i), i, ((n - 1) % ShardLen(i)) + 1)]

\* the iteration a worker's target_all and output_all are of
TargetIter(w) == IF w.pc = "gatherO" THEN w.idx ELSE w.idx - 1
OutputIter(w) == w.idx - 1

\* C4: the gather is a blocking all-gather: no worker has returned from more
\* calls than any worker has entered; what a worker receives is the W*B rows
\* of all workers in ascending rank order; with W = 1 it is the input; and
\* after an iteration's two gathers row n of target_all and row n of
\* output_all are of the same sample.
C4_GatherIsBlockingAllGather ==
    \A r \in DOMAIN vw :
        LET w == vw[r]
        IN  /\ \A q \in DOMAIN vw : w.returned <= vw[q].entered
            /\ w.target_all = ExpectedGathered("target", TargetIter(w))
            /\ w.output_all = ExpectedGathered("output", OutputIter(w))
            /\ TargetIter(w) >= 0 =>
                   Len(w.target_all) = vcfg.W * ShardLen(TargetIter(w))
            /\ OutputIter(w) >= 0 =>
                   Len(w.output_all) = vcfg.W * ShardLen(OutputIter(w))
            /\ (vcfg.W = 1 /\ w.pc = "gatherO") => w.target_all = w.target
            /\ (vcfg.W = 1 /\ w.pc \in {"loop", "done"} /\ w.idx > 0) =>
                   w.target_all = w.target /\ w.output_all = w.output
            /\ w.pc \in {"loop", "done"} =>
                   /\ Len(w.target_all) = Len(w.output_all)
                   /\ \A n \in 1..Len(w.target_all) :
                          /\ w.target_all[n].kind = "target"
                          /\ w.output_all[n].kind = "output"
                          /\ w.target_all[n].src = w.output_all[n].src
                          /\ w.target_all[n].smp = w.output_all[n].smp

\* Rank 1 has finished its first iteration while rank 0 is still inside the
\* second gather; rank 1 holds the rows of rank 0, then its own.
C4_LaterRankReturnedFirst ==
    /\ vcfg.W = 2 /\ DOMAIN vw = 0..1
    /\ vw[1].pc = "loop" /\ vw[1].idx = 1 /\ vw[0].pc = "gatherO"
    /\ Len(vw[1].output_all) = 2 * FullLen
    /\ vw[1].output_all[1].src[1] = 0
    /\ vw[1].output_all[2 * FullLen].src[1] = 1
    /\ vw[1].output_all[1].smp # vw[1].output_all[FullLen + 1].smp

\* gather calls a worker at pc has entered in its current iteration
EnteredAt(pc) == IF pc = "gatherT" THEN 1 ELSE IF pc = "gatherO" THEN 2 ELSE 0

\* C10: only a worker whose flag is true creates, updates (once per batch)
\* and closes a progress bar; the returned triple, the number of gather
\* calls and the meters are the same whatever the flag.
C10_MasterFlagOnlyObservability ==
    \A r \in DOMAIN vw :
        LET w == vw[r]
        IN  /\ ~w.isMaster => w.pbar = NoPbar
            /\ w.isMaster =>
                   IF w.pc = "start" THEN w.pbar = NoPbar
                   ELSE /\ w.pbar.created
                        /\ w.pbar.total = vcfg.numIter
                        /\ w.pbar.updates = w.idx
                        /\ w.pbar.closed = (w.pc = "done")
                        /\ (w.idx > 0 /\ w.pc \in {"loop", "done"}) =>
                               w.pbar.desc = <<w.top1.avg, w.top5.avg>>
            /\ w.entered = 2 * w.idx + EnteredAt(w.pc)
            /\ w.pc \in {"loop", "done"} =>
                   /\ w.batch_time.count = w.idx
                   /\ w.losses.count = SizeFrom(0, w.idx)
                   /\ w.top1.count = SizeFrom(0, w.idx)
                   /\ w.top5.count = SizeFrom(0, w.idx)
            /\ w.pc = "done" =>
                   /\ w.ret = ExpectedTriple
                   /\ w.entered = 2 * vcfg.numIter
            /\ \A q \in DOMAIN vw :
                   (vw[q].idx = w.idx /\ {vw[q].pc, w.pc} \subseteq {"loop", "done"}) =>
                       /\ vw[q].losses = w.losses
                       /\ vw[q].top1 = w.top1
                       /\ vw[q].top5 = w.top5
                       /\ vw[q].batch_time = w.batch_time

\* A master and a non-master worker have both returned from a validation of
\* two batches; the master's bar was updated twice and closed.
C10_MasterAndOtherReturned ==
    /\ vcfg.W = 2 /\ vcfg.numIter = 2 /\ DOMAIN vw = 0..1
    /\ vw[0].isMaster /\ ~vw[1].isMaster
    /\ vw[0].pc = "done" /\ vw[1].pc = "done"
    /\ vw[0].pbar.updates = 2 /\ vw[0].pbar.closed
    /\ vw[1].pbar = NoPbar
    /\ vw[0].ret = vw[1].ret

=============================================================================
